---- MODULE Spec2Model ----
(***************************************************************************)
(* Model of package signal of flexi-cache/pkg: the Handlers registry, its  *)
(* dispatch (handleSignal), the termination pipeline                       *)
(* (runTerminationProcedures), the exit-code carrier and the listener      *)
(* started by StartListen.                                                 *)
(*                                                                         *)
(* Threads: one client thread ("main") that calls the public API, and one  *)
(* background goroutine per StartListen call (the listeners).              *)
(* The os/signal package is the environment: OSSignal raises a signal and  *)
(* does a non-blocking send on every channel passed to signal.Notify.      *)
(***************************************************************************)
EXTENDS Integers, Sequences, FiniteSets, TLC

\* ------------------------------------------------------------- bounds
MaxRegs == 2        \* RegisterSignalHandler calls made by the client
MaxProcs == 2       \* RegisterTerminationProcedure calls made by the client
MaxListeners == 1   \* StartListen calls made by the client
MaxConcurrent == 2  \* StartListen calls made by the client of ListenSpec
MaxRaise == 2       \* signals raised by the operating system

\* ------------------------------------------------------------- values
SIGTERM == "SIGTERM"
SIGINT == "SIGINT"
SIGUSR1 == "SIGUSR1"
Signals == {SIGTERM, SIGINT, SIGUSR1}

\* var anySignal = _anySignal{}: the registry key of the wildcard list
anySignal == "anySignal"

\* var DefaultTerminationSignals = []os.Signal{syscall.SIGTERM, syscall.SIGINT}
DefaultTerminationSignals == <<SIGTERM, SIGINT>>

\* The argument lists NewHandlers is called with (<<>>: no argument).
NewHandlersArgs == {<<>>, <<SIGTERM>>, <<SIGTERM, SIGTERM>>}

\* The signal lists RegisterSignalHandler is called with (<<>>: all signals).
RegisterArgs == {<<>>, <<SIGTERM, SIGUSR1>>}

\* The Logger values: stdLogger{} (the default) and the nil interface.
stdLogger == "stdLogger"
nilLogger == "nil"
Loggers == {stdLogger, nilLogger}

\* The exit function: os.Exit (the default), or a function that records the
\* code and returns (setExit, as _newHandlers of the tests installs).
osExit == "os.Exit"
stubExit == "stub"

\* Errors: nil, a plain error (io.EOF), and errorWithExitCode{error, exitCode}.
NilErr == <<"nil">>
EOF == <<"io.EOF">>

\* The handler NewHandlers installs is registration 1; the client's
\* registrations are numbered from 2 in the order they take effect.
TermHandler == 1

\* The goroutines StartListen can start. Spec starts MaxListeners of them.
Listeners == 1..MaxConcurrent

\* make(chan os.Signal, 1): the capacity of the listener's channel
ChanCap == 1

\* var code = 0 in runTerminationProcedures
InitialCode == 0

\* getCodeFromError(err, 1): the default exit code of an error without a code
DefaultErrorCode == 1

\* ------------------------------------------------- the exit-code carrier
\* func WrapErrorWithCode(e error, code int) error
WrapErrorWithCode(e, code) ==
    IF e = NilErr THEN NilErr ELSE <<"errorWithExitCode", e, code>>

\* A function that ignores the code the error carries.
getCodeFromErrorDefault(e, def) == def

\* func getCodeFromError(e error, def int) int
getCodeFromError(e, def) ==
    IF e[1] = "errorWithExitCode" THEN e[3] ELSE def

\* A TerminationFunc that calls s.SetLogger(stdLogger{}) on the Handlers it
\* is registered with, and then returns nil.
CallsSetLogger == <<"calls s.SetLogger">>

\* What a registered TerminationFunc returns when it is called.
ProcReturns ==
    {NilErr, EOF, WrapErrorWithCode(EOF, 0), WrapErrorWithCode(EOF, 2)}

\* ------------------------------------------------------------- state
VARIABLES
    handlers,               \* Handlers.handlers: key -> sequence of handler ids
    terminationSignals,     \* Handlers.terminationSignals
    terminationProcedures,  \* Handlers.terminationProcedures
    log,                    \* Handlers.log
    exit,                   \* Handlers.exit
    lockWriter,             \* globalLock: "free", or a Lock() "waiting" / "held"
    lockReaders,            \* globalLock: number of RLock()s not yet released
    status,                 \* the process: "running", "exited", killed, or a panic
    mainPc,                 \* the client thread: "idle", "Lock", "locked", "log"
    call,                   \* the API call the client thread is inside
    nListeners,             \* StartListen calls so far
    notify,                 \* the listeners whose channel os/signal sends to
    chan,                   \* per listener: the buffered channel c
    closed,                 \* per listener: c has been closed
    task,                   \* per listener: the background goroutine
    regSigs,                \* history: the signal list of each registration
    delivered,              \* history: per listener, signals raised while notified
    dispatched,             \* history: per listener, handleSignal calls
    raised,                 \* history: signals raised by the operating system
    carrier                 \* the exit-code carrier functions applied to inputs

vars == <<handlers, terminationSignals, terminationProcedures, log, exit,
          lockWriter, lockReaders, status, mainPc, call, nListeners, notify,
          chan, closed, task, regSigs, delivered, dispatched, raised,
          carrier>>

NoCall == [op |-> "none", sigs |-> <<>>, fn |-> NilErr, logger |-> stdLogger]

\* A goroutine that has not been started, or is between two dispatches.
NewTask(pc) ==
    [pc |-> pc, target |-> anySignal, late |-> FALSE, i |-> 0,
     calls |-> <<>>, p |-> 0, code |-> 0, ran |-> <<>>, exits |-> <<>>]

\* ------------------------------------------- RegisterSignalHandler body
\* A registration that puts the handler in front of the list.
PrependHandler(list, handler) == <<handler>> \o list

\* s.handlers[sig] = append(handlers, handler)
AppendHandler(list, handler) == Append(list, handler)

\* An iteration that appends the handler to the list of every key.
AddHandlerToEveryKey(hs, sig, handler) ==
    [k \in DOMAIN hs \cup {sig} |->
        IF k \in DOMAIN hs THEN AppendHandler(hs[k], handler) ELSE <<handler>>]

\* One iteration of `for _, sig := range signals`.
AddHandler(hs, sig, handler) ==
    IF sig \in DOMAIN hs
    THEN [hs EXCEPT ![sig] = AppendHandler(hs[sig], handler)]
    ELSE [k \in DOMAIN hs \cup {sig} |->
            IF k = sig THEN <<handler>> ELSE hs[k]]

RECURSIVE AddHandlerAll(_, _, _)
AddHandlerAll(hs, signals, handler) ==
    IF signals = <<>> THEN hs
    ELSE AddHandlerAll(AddHandler(hs, Head(signals), handler),
                       Tail(signals), handler)

\* A body without `if len(signals) == 0 { ...; return }`: the handler goes to
\* the wildcard list whatever the signals.
RegisterAlsoAsWildcard(hs, handler, signals) ==
    AddHandlerAll([hs EXCEPT ![anySignal] = AppendHandler(hs[anySignal], handler)],
                  signals, handler)

\* func (s *Handlers) RegisterSignalHandler(handler, signals...) without its lock
RegisterSignalHandlerBody(hs, handler, signals) ==
    IF Len(signals) = 0
    THEN [hs EXCEPT ![anySignal] = AppendHandler(hs[anySignal], handler)]
    ELSE AddHandlerAll(hs, signals, handler)

\* func NewHandlers(terminationSignals ...os.Signal) *Handlers
NewHandlersSignals(args) ==
    IF Len(args) = 0 THEN DefaultTerminationSignals ELSE args

\* A constructor without `handlers.handlers[anySignal] = make(...)`.
NewHandlersWithoutWildcard(args) ==
    AddHandlerAll(<<>>, NewHandlersSignals(args), TermHandler)

\* handlers: make(map...); handlers.handlers[anySignal] = make(...);
\* handlers.installTerminationHandlers()
NewHandlersRegistry(args) ==
    RegisterSignalHandlerBody([k \in {anySignal} |-> <<>>], TermHandler,
                              NewHandlersSignals(args))

\* The exit-code carrier functions have not been applied.
NotApplied ==
    [pc |-> "none", e |-> NilErr, code |-> 0, def |-> 0, wrapped |-> NilErr,
     got |-> 0]

\* The state in which NewHandlers(args...) returns, with exit function e.
InitWith(args, e) ==
    /\ terminationSignals = NewHandlersSignals(args)
    /\ handlers = NewHandlersRegistry(args)
    /\ terminationProcedures = <<>>
    /\ log = stdLogger
    /\ exit = e
    /\ lockWriter = "free"
    /\ lockReaders = 0
    /\ status = "running"
    /\ mainPc = "idle"
    /\ call = NoCall
    /\ nListeners = 0
    /\ notify = {}
    /\ chan = [l \in Listeners |-> <<>>]
    /\ closed = [l \in Listeners |-> FALSE]
    /\ task = [l \in Listeners |-> NewTask("none")]
    /\ regSigs = <<NewHandlersSignals(args)>>
    /\ delivered = [l \in Listeners |-> 0]
    /\ dispatched = [l \in Listeners |-> 0]
    /\ raised = 0

Init ==
    /\ \E args \in NewHandlersArgs, e \in {osExit, stubExit} : InitWith(args, e)
    /\ carrier = NotApplied

\* ------------------------------------------------------ the client thread
Running == status = "running"

\* s.log.Debug(...) / s.log.Info(...): a method call on a nil interface panics
LogPanics(logger) == logger = nilLogger

PanicNilLogger == "panic: nil pointer dereference (nil Logger)"
PanicCloseClosed == "panic: close of closed channel"
PanicSendClosed == "panic: send on closed channel"

\* s.globalLock.Lock() is called: it returns at once when no reader holds the
\* lock; otherwise the writer announces itself, which blocks every later
\* RLock(), and waits for the active readers to leave.
Lock(c) ==
    /\ Running
    /\ mainPc = "idle"
    /\ lockWriter = "free"
    /\ call' = c
    /\ IF lockReaders = 0
       THEN /\ lockWriter' = "held"
            /\ mainPc' = "locked"
       ELSE /\ lockWriter' = "waiting"
            /\ mainPc' = "Lock"
    /\ UNCHANGED <<handlers, terminationSignals, terminationProcedures, log,
                   exit, lockReaders, status, nListeners, notify, chan, closed,
                   task, regSigs, delivered, dispatched, raised,
                   carrier>>

\* The client calls RegisterSignalHandler(handler, signals...).
CallRegisterSignalHandler ==
    /\ Len(regSigs) <= MaxRegs
    /\ \E signals \in RegisterArgs :
          Lock([NoCall EXCEPT !.op = "RegisterSignalHandler", !.sigs = signals])

\* The client calls RegisterTerminationProcedure(fn, message).
CallRegisterTerminationProcedure ==
    /\ Len(terminationProcedures) < MaxProcs
    /\ \E err \in ProcReturns :
          Lock([NoCall EXCEPT !.op = "RegisterTerminationProcedure", !.fn = err])

\* The client calls SetLogger(l).
CallSetLogger ==
    \E l \in Loggers \ {log} :
        Lock([NoCall EXCEPT !.op = "SetLogger", !.logger = l])

\* A waiting Lock() returns: the last reader has left. The caller is the
\* client thread, or a goroutine whose termination procedure made the call.
LockAcquired ==
    /\ Running
    /\ lockWriter = "waiting"
    /\ lockReaders = 0
    /\ lockWriter' = "held"
    /\ IF mainPc = "Lock"
       THEN /\ mainPc' = "locked"
            /\ UNCHANGED task
       ELSE /\ task' = [l \in Listeners |->
                          IF task[l].pc = "fnLock"
                          THEN [task[l] EXCEPT !.pc = "fnLocked"]
                          ELSE task[l]]
            /\ UNCHANGED mainPc
    /\ UNCHANGED <<handlers, terminationSignals, terminationProcedures, log,
                   exit, lockReaders, status, call, nListeners, notify, chan,
                   closed, regSigs, delivered, dispatched, raised,
                   carrier>>

\* RegisterSignalHandler under the lock, and the deferred Unlock().
RegisterSignalHandler ==
    /\ Running
    /\ mainPc = "locked"
    /\ call.op = "RegisterSignalHandler"
    /\ handlers' = RegisterSignalHandlerBody(handlers, Len(regSigs) + 1, call.sigs)
    /\ regSigs' = Append(regSigs, call.sigs)
    /\ lockWriter' = "free"
    /\ mainPc' = "idle"
    /\ call' = NoCall
    /\ UNCHANGED <<terminationSignals, terminationProcedures, log, exit,
                   lockReaders, status, nListeners, notify, chan, closed,
                   task, delivered, dispatched, raised,
                   carrier>>

\* A registration that puts the procedure in front of the sequence.
PrependProcedure(procs, proc) == <<proc>> \o procs

\* s.terminationProcedures = append(s.terminationProcedures, terminationProcedure{fn, message})
AppendProcedure(procs, proc) == Append(procs, proc)

\* RegisterTerminationProcedure: the append under the lock, and Unlock().
\* fn is modelled by the error it returns, message by the number of the
\* registration, which tells the procedures apart.
RegisterTerminationProcedure ==
    /\ Running
    /\ mainPc = "locked"
    /\ call.op = "RegisterTerminationProcedure"
    /\ terminationProcedures' =
          AppendProcedure(terminationProcedures,
               [fn |-> call.fn, message |-> Len(terminationProcedures) + 1])
    /\ lockWriter' = "free"
    /\ mainPc' = "log"
    /\ UNCHANGED <<handlers, terminationSignals, log, exit, lockReaders, status,
                   call, nListeners, notify, chan, closed, task,
                   regSigs, delivered, dispatched, raised,
                   carrier>>

\* RegisterTerminationProcedure: s.log.Debug(...) after the Unlock().
RegisterTerminationProcedureLog ==
    /\ Running
    /\ mainPc = "log"
    /\ status' = IF LogPanics(log) THEN PanicNilLogger ELSE status
    /\ mainPc' = "idle"
    /\ call' = NoCall
    /\ UNCHANGED <<handlers, terminationSignals, terminationProcedures, log,
                   exit, lockWriter, lockReaders, nListeners, notify, chan,
                   closed, task, regSigs, delivered, dispatched, raised,
                   carrier>>

\* SetLogger under the lock, and the deferred Unlock(). In a goroutine the
\* caller is a termination procedure, which then returns nil to the loop of
\* runTerminationProcedures.
SetLogger ==
    /\ Running
    /\ lockWriter = "held"
    /\ IF mainPc = "locked"
       THEN /\ call.op = "SetLogger"
            /\ log' = call.logger
            /\ mainPc' = "idle"
            /\ call' = NoCall
            /\ UNCHANGED task
       ELSE /\ \E l \in Listeners : task[l].pc = "fnLocked"
            /\ log' = stdLogger
            /\ task' = [l \in Listeners |->
                          IF task[l].pc = "fnLocked"
                          THEN [task[l] EXCEPT !.pc = "rtLoop", !.p = @ + 1]
                          ELSE task[l]]
            /\ UNCHANGED <<mainPc, call>>
    /\ lockWriter' = "free"
    /\ UNCHANGED <<handlers, terminationSignals, terminationProcedures, exit,
                   lockReaders, status, nListeners, notify, chan, closed,
                   regSigs, delivered, dispatched, raised,
                   carrier>>

\* StartListen: log, make(chan os.Signal, 1), signal.Notify(c), go func.
\* The client calls it at most max times.
StartListenUpTo(max) ==
    /\ Running
    /\ mainPc = "idle"
    /\ nListeners < max
    /\ IF LogPanics(log)
       THEN /\ status' = PanicNilLogger
            /\ UNCHANGED <<nListeners, notify, task>>
       ELSE /\ nListeners' = nListeners + 1
            /\ notify' = notify \cup {nListeners + 1}
            /\ task' = [task EXCEPT ![nListeners + 1] = NewTask("recv")]
            /\ UNCHANGED status
    /\ UNCHANGED <<handlers, terminationSignals, terminationProcedures, log,
                   exit, lockWriter, lockReaders, mainPc, call, chan, closed,
                   regSigs, delivered, dispatched, raised,
                   carrier>>

StartListen == StartListenUpTo(MaxListeners)

\* A cancellation handle that closes c without signal.Stop(c).
SignalStopMissing(subscribed, l) == subscribed

\* signal.Stop(c): when it returns, c receives no more signals.
SignalStop(subscribed, l) == subscribed \ {l}

\* close(c)
Close(isClosed, l) == [isClosed EXCEPT ![l] = TRUE]

\* The cancellation handle StartListen returned: signal.Stop(c); close(c).
Cancel(l) ==
    /\ Running
    /\ mainPc = "idle"
    /\ l <= nListeners
    /\ notify' = SignalStop(notify, l)
    /\ IF closed[l]
       THEN /\ status' = PanicCloseClosed
            /\ UNCHANGED closed
       ELSE /\ closed' = Close(closed, l)
            /\ UNCHANGED status
    /\ UNCHANGED <<handlers, terminationSignals, terminationProcedures, log,
                   exit, lockWriter, lockReaders, mainPc, call, nListeners,
                   chan, task, regSigs, delivered, dispatched, raised,
                   carrier>>

\* ------------------------------------------------ the os/signal package
\* The non-blocking send of os/signal on a notified channel:
\* select { case c <- sig: default: }
Send(c, item) == IF Len(c) < ChanCap THEN Append(c, item) ELSE c

\* Without a notified channel SIGTERM and SIGINT end the process; the Go
\* runtime takes no action on the other signals.
DefaultKills == {SIGTERM, SIGINT}

\* The operating system raises sig.
OSSignal(sig) ==
    /\ Running
    /\ raised < MaxRaise
    /\ raised' = raised + 1
    /\ delivered' = [l \in Listeners |->
                        IF l \in notify THEN delivered[l] + 1 ELSE delivered[l]]
    /\ IF \E l \in notify : closed[l]
       THEN /\ status' = PanicSendClosed
            /\ UNCHANGED chan
       ELSE /\ chan' = [l \in Listeners |->
                          IF l \in notify
                          THEN Send(chan[l], [sig |-> sig, late |-> closed[l]])
                          ELSE chan[l]]
            /\ status' = IF notify = {} /\ sig \in DefaultKills
                         THEN "killed by signal" ELSE status
    /\ UNCHANGED <<handlers, terminationSignals, terminationProcedures, log,
                   exit, lockWriter, lockReaders, mainPc, call, nListeners,
                   notify, closed, task, regSigs, dispatched,
                   carrier>>

\* ------------------------------------------- the listener's goroutine
\* for sig := range c { s.log.Info("signal received: ", sig); s.handleSignal(sig) }
TaskReceive(l) ==
    /\ Running
    /\ task[l].pc = "recv"
    /\ chan[l] # <<>>
    /\ chan' = [chan EXCEPT ![l] = Tail(@)]
    /\ IF LogPanics(log)
       THEN /\ status' = PanicNilLogger
            /\ UNCHANGED <<task, dispatched>>
       ELSE /\ task' = [task EXCEPT ![l] =
                  [NewTask("hsRLock") EXCEPT !.target = Head(chan[l]).sig,
                                             !.late = Head(chan[l]).late]]
            /\ dispatched' = [dispatched EXCEPT ![l] = @ + 1]
            /\ UNCHANGED status
    /\ UNCHANGED <<handlers, terminationSignals, terminationProcedures, log,
                   exit, lockWriter, lockReaders, mainPc, call, nListeners,
                   notify, closed, regSigs, delivered, raised,
                   carrier>>

\* The range loop ends when c is closed and drained: the goroutine returns.
TaskExit(l) ==
    /\ Running
    /\ task[l].pc = "recv"
    /\ chan[l] = <<>>
    /\ closed[l]
    /\ task' = [task EXCEPT ![l] = NewTask("done")]
    /\ UNCHANGED <<handlers, terminationSignals, terminationProcedures, log,
                   exit, lockWriter, lockReaders, status, mainPc, call,
                   nListeners, notify, chan, closed, regSigs,
                   delivered, dispatched, raised,
                   carrier>>

\* ---------------------------------------------------------- handleSignal
\* An RLock() that does not look at the writer.
RLockIgnoresWriter == TRUE

\* s.globalLock.RLock(): blocked while a writer holds or waits for the lock.
RLockFree == lockWriter = "free"

\* handleSignal: s.globalLock.RLock()
HandleSignalRLock(l) ==
    /\ Running
    /\ task[l].pc = "hsRLock"
    /\ RLockFree
    /\ lockReaders' = lockReaders + 1
    /\ task' = [task EXCEPT ![l].pc = "hsWild", ![l].i = 1]
    /\ UNCHANGED <<handlers, terminationSignals, terminationProcedures, log,
                   exit, lockWriter, status, mainPc, call, nListeners, notify,
                   chan, closed, regSigs, delivered, dispatched, raised,
                   carrier>>

\* handleSignal: for _, handle := range s.handlers[anySignal] { handle(target) }
\* (handleTerminationSignals is never in the wildcard list: NewHandlers
\* registers it with a non-empty signal list.)
HandleSignalWildcard(l) ==
    /\ Running
    /\ task[l].pc = "hsWild"
    /\ IF task[l].i <= Len(handlers[anySignal])
       THEN task' = [task EXCEPT
                ![l].calls = Append(@, handlers[anySignal][task[l].i]),
                ![l].i = @ + 1]
       ELSE task' = [task EXCEPT ![l].pc = "hsMap"]
    /\ UNCHANGED <<handlers, terminationSignals, terminationProcedures, log,
                   exit, lockWriter, lockReaders, status, mainPc, call,
                   nListeners, notify, chan, closed, regSigs,
                   delivered, dispatched, raised,
                   carrier>>

\* The keys of the registry other than target: for each of them the range
\* loop of handleSignal only calls s.log.Debug("no handler found ...").
OtherKeys(hs, target) == DOMAIN hs \ {target}

\* handleSignal: `for sig, handlers := range s.handlers` up to the key that
\* equals target. Go visits the keys of a map in an unspecified order: the
\* keys visited before target are any subset of the other keys (all of them
\* when target is no key), and each of them costs one s.log.Debug call.
HandleSignalRange(l) ==
    /\ Running
    /\ task[l].pc = "hsMap"
    /\ \E before \in SUBSET OtherKeys(handlers, task[l].target) :
          /\ task[l].target \notin DOMAIN handlers
                => before = OtherKeys(handlers, task[l].target)
          /\ IF before # {} /\ LogPanics(log)
             THEN /\ status' = PanicNilLogger
                  /\ UNCHANGED task
             ELSE /\ UNCHANGED status
                  /\ task' = [task EXCEPT
                        ![l].pc = IF task[l].target \in DOMAIN handlers
                                  THEN "hsSpec" ELSE "hsRet",
                        ![l].i = 1]
    /\ UNCHANGED <<handlers, terminationSignals, terminationProcedures, log,
                   exit, lockWriter, lockReaders, mainPc, call, nListeners,
                   notify, chan, closed, regSigs, delivered,
                   dispatched, raised,
                   carrier>>

\* handleSignal: the keys the range loop visits after target. s.log cannot
\* change while handleSignal holds the read lock, so with a nil logger
\* the loop came here without visiting another key, and every other key is
\* still to be visited; with a logger the Debug calls have no effect.
HandleSignalRangeRest(l) ==
    /\ Running
    /\ task[l].pc = "hsRest"
    /\ IF OtherKeys(handlers, task[l].target) # {} /\ LogPanics(log)
       THEN /\ status' = PanicNilLogger
            /\ UNCHANGED task
       ELSE /\ UNCHANGED status
            /\ task' = [task EXCEPT ![l].pc = "hsRet"]
    /\ UNCHANGED <<handlers, terminationSignals, terminationProcedures, log,
                   exit, lockWriter, lockReaders, mainPc, call, nListeners,
                   notify, chan, closed, regSigs, delivered,
                   dispatched, raised,
                   carrier>>

\* handleSignal returns: the deferred s.globalLock.RUnlock().
HandleSignalRUnlock(l) ==
    /\ Running
    /\ task[l].pc = "hsRet"
    /\ lockReaders' = lockReaders - 1
    /\ task' = [task EXCEPT ![l] = NewTask("recv")]
    /\ UNCHANGED <<handlers, terminationSignals, terminationProcedures, log,
                   exit, lockWriter, status, mainPc, call, nListeners, notify,
                   chan, closed, regSigs, delivered, dispatched, raised,
                   carrier>>

\* handleSignal: for _, handle := range handlers { handle(target) } for the
\* key that equals target. A client's handler returns at once;
\* handleTerminationSignals starts with runTerminationProcedures.
HandleSignalSpecific(l) ==
    /\ Running
    /\ task[l].pc = "hsSpec"
    /\ IF task[l].i <= Len(handlers[task[l].target])
       THEN LET h == handlers[task[l].target][task[l].i] IN
            IF h = TermHandler
            THEN task' = [task EXCEPT ![l].calls = Append(@, h),
                                      ![l].pc = "rtRLock"]
            ELSE task' = [task EXCEPT ![l].calls = Append(@, h),
                                      ![l].i = @ + 1]
       ELSE task' = [task EXCEPT ![l].pc = "hsRest"]
    /\ UNCHANGED <<handlers, terminationSignals, terminationProcedures, log,
                   exit, lockWriter, lockReaders, status, mainPc, call,
                   nListeners, notify, chan, closed, regSigs,
                   delivered, dispatched, raised,
                   carrier>>

\* ---------------------------------------------- runTerminationProcedures
\* runTerminationProcedures: s.globalLock.RLock(), taken while handleSignal
\* of the same goroutine already holds a read lock.
RunTerminationProceduresRLock(l) ==
    /\ Running
    /\ task[l].pc = "rtRLock"
    /\ RLockFree
    /\ lockReaders' = lockReaders + 1
    /\ task' = [task EXCEPT ![l].pc = "rtLoop", ![l].p = 1,
                            ![l].code = InitialCode, ![l].ran = <<>>]
    /\ UNCHANGED <<handlers, terminationSignals, terminationProcedures, log,
                   exit, lockWriter, status, mainPc, call, nListeners, notify,
                   chan, closed, regSigs, delivered, dispatched, raised,
                   carrier>>

\* if code == 0 { code = getCodeFromError(err, 1) }
ResolveCode(code, err) ==
    IF code = 0 THEN getCodeFromError(err, DefaultErrorCode) ELSE code

\* A loop that a failing procedure ends.
NextProcedureBreakOnError(p, err) ==
    IF err = NilErr THEN p + 1 ELSE Len(terminationProcedures) + 1

\* The loop goes on to the next procedure whatever proc.fn returned.
NextProcedure(p, err) == p + 1

\* A loop body without `if err == nil { continue }`.
AfterProcedureNoNilCheck(code, err) == ResolveCode(code, err)

\* The code after proc.fn(sig) returned err: nil leaves it as it is.
AfterProcedure(code, err) ==
    IF err = NilErr THEN code ELSE ResolveCode(code, err)

\* runTerminationProcedures: the empty case, one iteration of
\* `for _, proc := range s.terminationProcedures`, or the end of the loop
\* with the deferred RUnlock() and the return of code.
RunTerminationProcedures(l) ==
    /\ Running
    /\ task[l].pc = "rtLoop"
    /\ IF LogPanics(log)
       THEN \* each branch logs first
            /\ status' = PanicNilLogger
            /\ UNCHANGED <<task, lockReaders>>
       ELSE /\ UNCHANGED status
            /\ IF Len(terminationProcedures) = 0
               THEN /\ task' = [task EXCEPT ![l].code = 0, ![l].pc = "htExit"]
                    /\ lockReaders' = lockReaders - 1
               ELSE IF task[l].p <= Len(terminationProcedures)
               THEN LET proc == terminationProcedures[task[l].p]
                        err == proc.fn
                    IN /\ IF proc.fn = CallsSetLogger
                          THEN \* proc.fn(sig) is running
                               task' = [task EXCEPT
                                  ![l].ran = Append(@, proc.message),
                                  ![l].pc = "fnCall"]
                          ELSE task' = [task EXCEPT
                                  ![l].ran = Append(@, proc.message),
                                  ![l].code = AfterProcedure(@, err),
                                  ![l].p = NextProcedure(@, err)]
                       /\ UNCHANGED lockReaders
               ELSE /\ task' = [task EXCEPT ![l].pc = "htExit"]
                    /\ lockReaders' = lockReaders - 1
    /\ UNCHANGED <<handlers, terminationSignals, terminationProcedures, log,
                   exit, lockWriter, mainPc, call, nListeners, notify, chan,
                   closed, regSigs, delivered, dispatched, raised,
                   carrier>>

\* A termination procedure run by the goroutine of listener l calls
\* s.SetLogger, which calls s.globalLock.Lock(): the writer announces itself
\* and waits for the readers to leave. (A Lock() called while another writer
\* waits or holds the lock waits for that writer first.)
ProcedureLock(l) ==
    /\ Running
    /\ task[l].pc = "fnCall"
    /\ lockWriter = "free"
    /\ lockWriter' = "waiting"
    /\ task' = [task EXCEPT ![l].pc = "fnLock"]
    /\ UNCHANGED <<handlers, terminationSignals, terminationProcedures, log,
                   exit, lockReaders, status, mainPc, call, nListeners, notify,
                   chan, closed, regSigs, delivered, dispatched, raised,
                   carrier>>

\* handleTerminationSignals after runTerminationProcedures returned:
\* s.log.Info("bye"); s.exit(code). os.Exit ends the process; the stub returns.
HandleTerminationSignalsExit(l) ==
    /\ Running
    /\ task[l].pc = "htExit"
    /\ IF LogPanics(log)
       THEN /\ status' = PanicNilLogger
            /\ UNCHANGED task
       ELSE /\ task' = [task EXCEPT ![l].exits = Append(@, task[l].code),
                                    ![l].pc = "hsSpec", ![l].i = @ + 1]
            /\ status' = IF exit = osExit THEN "exited" ELSE status
    /\ UNCHANGED <<handlers, terminationSignals, terminationProcedures, log,
                   exit, lockWriter, lockReaders, mainPc, call, nListeners,
                   notify, chan, closed, regSigs, delivered,
                   dispatched, raised,
                   carrier>>

\* ------------------------------------------------------- specification
Next ==
    \/ CallRegisterSignalHandler
    \/ CallRegisterTerminationProcedure
    \/ CallSetLogger
    \/ LockAcquired
    \/ RegisterSignalHandler
    \/ RegisterTerminationProcedure
    \/ RegisterTerminationProcedureLog
    \/ SetLogger
    \/ StartListen
    \/ \E l \in Listeners : Cancel(l)
    \/ \E sig \in Signals : OSSignal(sig)
    \/ \E l \in Listeners : TaskReceive(l)
    \/ \E l \in Listeners : TaskExit(l)
    \/ \E l \in Listeners : HandleSignalRLock(l)
    \/ \E l \in Listeners : HandleSignalWildcard(l)
    \/ \E l \in Listeners : HandleSignalRange(l)
    \/ \E l \in Listeners : HandleSignalRangeRest(l)
    \/ \E l \in Listeners : HandleSignalRUnlock(l)
    \/ \E l \in Listeners : HandleSignalSpecific(l)
    \/ \E l \in Listeners : RunTerminationProceduresRLock(l)
    \/ \E l \in Listeners : RunTerminationProcedures(l)
    \/ \E l \in Listeners : HandleTerminationSignalsExit(l)

Spec == Init /\ [][Next]_vars

\* ------------------------------------- the listener under a fair scheduler
\* One step of the goroutine of listener l that receives or dispatches a
\* signal.
DispatchStep(l) ==
    \/ TaskReceive(l)
    \/ HandleSignalRLock(l)
    \/ HandleSignalWildcard(l)
    \/ HandleSignalRange(l)
    \/ HandleSignalRangeRest(l)
    \/ HandleSignalRUnlock(l)
    \/ HandleSignalSpecific(l)
    \/ RunTerminationProceduresRLock(l)
    \/ RunTerminationProcedures(l)
    \/ HandleTerminationSignalsExit(l)

\* One step of the goroutine of listener l.
TaskStep(l) == DispatchStep(l) \/ TaskExit(l)

\* One step of the client thread inside a call it has made.
ClientStep ==
    \/ LockAcquired
    \/ SetLogger

\* NewHandlers() with the default termination signals; the client starts and
\* cancels up to MaxConcurrent listeners and sets the logger.
ListenInit ==
    /\ \E e \in {osExit, stubExit} : InitWith(<<>>, e)
    /\ carrier = NotApplied

ListenNext ==
    \/ CallSetLogger
    \/ ClientStep
    \/ StartListenUpTo(MaxConcurrent)
    \/ \E l \in Listeners : Cancel(l)
    \/ \E sig \in Signals : OSSignal(sig)
    \/ \E l \in Listeners : TaskStep(l)

\* The Go scheduler runs every goroutine that can run: a client thread inside
\* a call that can take a step eventually takes one, and so does a goroutine.
\* Unlock() of sync.RWMutex admits every RLock() that waited before the next
\* Lock() can succeed, so a goroutine whose RLock() is possible again and
\* again is not overtaken for ever by writers: its fairness is strong.
\* Nothing obliges the client to make a call or the system to raise a signal.
ListenSpec ==
    /\ ListenInit
    /\ [][ListenNext]_vars
    /\ WF_vars(ClientStep)
    /\ \A l \in Listeners : SF_vars(TaskStep(l))

\* ------------------------------- concurrent dispatches and registrations
\* NewHandlers() with the exit function replaced (setExit), so that the
\* process goes on after a termination signal. The client starts up to
\* MaxConcurrent listeners, which it does not cancel, and makes each kind
\* of registration call, the two Register calls once each.
LockInit ==
    /\ InitWith(<<>>, stubExit)
    /\ carrier = NotApplied

FirstRegisterSignalHandler ==
    /\ Len(regSigs) = Len(<<TermHandler>>)
    /\ CallRegisterSignalHandler

FirstRegisterTerminationProcedure ==
    /\ terminationProcedures = <<>>
    /\ CallRegisterTerminationProcedure

LockNext ==
    \/ FirstRegisterSignalHandler
    \/ FirstRegisterTerminationProcedure
    \/ CallSetLogger
    \/ LockAcquired
    \/ RegisterSignalHandler
    \/ RegisterTerminationProcedure
    \/ RegisterTerminationProcedureLog
    \/ SetLogger
    \/ StartListenUpTo(MaxConcurrent)
    \/ \E sig \in Signals : OSSignal(sig)
    \/ \E l \in Listeners : DispatchStep(l)

LockSpec == LockInit /\ [][LockNext]_vars

\* -------------------------- a termination procedure that calls SetLogger
\* The client registers a procedure that calls s.SetLogger.
CallRegisterReentrantProcedure ==
    /\ Len(terminationProcedures) < MaxProcs
    /\ Lock([NoCall EXCEPT !.op = "RegisterTerminationProcedure",
                           !.fn = CallsSetLogger])

\* NewHandlers() with the exit function replaced (setExit). The client
\* registers termination procedures, among them procedures that call
\* s.SetLogger, sets the logger and starts a listener.
ReentrantInit ==
    /\ InitWith(<<>>, stubExit)
    /\ carrier = NotApplied

ReentrantNext ==
    \/ CallRegisterReentrantProcedure
    \/ CallRegisterTerminationProcedure
    \/ CallSetLogger
    \/ LockAcquired
    \/ RegisterTerminationProcedure
    \/ RegisterTerminationProcedureLog
    \/ SetLogger
    \/ StartListen
    \/ \E sig \in Signals : OSSignal(sig)
    \/ \E l \in Listeners : DispatchStep(l)
    \/ \E l \in Listeners : ProcedureLock(l)

ReentrantSpec == ReentrantInit /\ [][ReentrantNext]_vars

\* ------------------------------- the exit-code carrier applied to inputs
\* The codes and defaults the functions are called with (42 and -1 are those
\* of TestGetCodeFromErrorReturnsExitCode).
Codes == {-1, 0, 1, 42}

\* Errors that carry no code: nil and io.EOF.
PlainErrors == {NilErr, EOF}

\* The errors the functions are called with: the plain ones, and io.EOF
\* already wrapped with a code.
Errors == PlainErrors \cup {WrapErrorWithCode(EOF, c) : c \in Codes}

\* The fields of Handlers and the listeners, which the carrier functions
\* neither read nor write.
handlersVars ==
    <<handlers, terminationSignals, terminationProcedures, log, exit,
      lockWriter, lockReaders, status, mainPc, call, nListeners, notify,
      chan, closed, task, regSigs, delivered, dispatched, raised>>

\* A caller holds an error e, a code and a default.
CarrierInit ==
    /\ InitWith(<<>>, osExit)
    /\ \E e \in Errors, code \in Codes, def \in Codes :
          carrier = [NotApplied EXCEPT !.pc = "start", !.e = e,
                                       !.code = code, !.def = def]

\* wrapped := WrapErrorWithCode(e, code)
CarrierWrap ==
    /\ carrier.pc = "start"
    /\ carrier' = [carrier EXCEPT
                      !.wrapped = WrapErrorWithCode(carrier.e, carrier.code),
                      !.pc = "wrapped"]
    /\ UNCHANGED handlersVars

\* got := getCodeFromError(wrapped, def)
CarrierGetCode ==
    /\ carrier.pc = "wrapped"
    /\ carrier' = [carrier EXCEPT
                      !.got = getCodeFromError(carrier.wrapped, carrier.def),
                      !.pc = "done"]
    /\ UNCHANGED handlersVars

\* got := getCodeFromError(e, def), without wrapping e
CarrierGetCodeDirect ==
    /\ carrier.pc = "start"
    /\ carrier' = [carrier EXCEPT
                      !.got = getCodeFromError(carrier.e, carrier.def),
                      !.pc = "direct"]
    /\ UNCHANGED handlersVars

CarrierNext == CarrierWrap \/ CarrierGetCode \/ CarrierGetCodeDirect

CarrierSpec == CarrierInit /\ [][CarrierNext]_vars

\* ------------------------------------------------------------ properties
Range(seq) == {seq[i] : i \in DOMAIN seq}

IsPrefix(a, b) == Len(a) <= Len(b) /\ \A i \in 1..Len(a) : a[i] = b[i]

\* The goroutine of listener l is inside handleSignal and holds its read lock.
Dispatching(l) ==
    task[l].pc \in {"hsWild", "hsMap", "hsSpec", "rtRLock", "rtLoop", "htExit",
                    "hsRest", "hsRet", "fnCall", "fnLock", "fnLocked"}

\* handleSignal of listener l has run both loops and is about to return.
Returning(l) == task[l].pc = "hsRet"

\* runTerminationProcedures of listener l has returned its code.
PipelineDone(l) == task[l].pc = "htExit"

IsTerminationSignal(sig) == sig \in Range(terminationSignals)

\* The handlers registered for key by the first n registrations, in the
\* order of the RegisterSignalHandler calls (a call that names a signal
\* twice registers its handler twice).
RECURSIVE RegisteredFor(_, _)
RegisteredFor(key, n) ==
    IF n = 0 THEN <<>>
    ELSE RegisteredFor(key, n - 1) \o
         (IF key = anySignal
          THEN (IF regSigs[n] = <<>> THEN <<n>> ELSE <<>>)
          ELSE [i \in 1..Len(SelectSeq(regSigs[n], LAMBDA sig : sig = key))
                  |-> n])

ExpectedCalls(target) ==
    RegisteredFor(anySignal, Len(regSigs)) \o RegisteredFor(target, Len(regSigs))

\* C1: whatever the order of the RegisterSignalHandler calls, a dispatch of X
\* calls the wildcard handlers in their registration order and then the
\* handlers registered for X in their registration order: at every moment
\* of a dispatch the handlers called so far are a prefix of that order, and
\* a dispatch that returns has called all of them.
C1_DispatchOrder ==
    \A l \in Listeners :
        Dispatching(l) =>
            /\ IsPrefix(task[l].calls, ExpectedCalls(task[l].target))
            /\ Returning(l) => task[l].calls = ExpectedCalls(task[l].target)

\* C1 witness: SIGTERM dispatched after a wildcard handler (2) and a
\* SIGTERM handler (3) were registered behind the termination handler (1).
C1_Witness ==
    \E l \in Listeners :
        /\ Returning(l)
        /\ task[l].target = SIGTERM
        /\ task[l].calls = <<2, 1, 3>>

\* The exit code the claim gives a procedure sequence: that of the first
\* procedure returning a non-nil error (its code if it carries one, else 1),
\* and 0 when none returns an error.
RECURSIVE FirstErrorCode(_)
FirstErrorCode(procs) ==
    IF procs = <<>> THEN 0
    ELSE IF Head(procs).fn = NilErr THEN FirstErrorCode(Tail(procs))
    ELSE IF Head(procs).fn[1] = "errorWithExitCode" THEN Head(procs).fn[3]
    ELSE 1

\* C2: the code runTerminationProcedures returns is the code of the first
\* procedure, in registration order, that returned a non-nil error.
C2_FirstErrorWins ==
    \A l \in Listeners :
        PipelineDone(l) => task[l].code = FirstErrorCode(terminationProcedures)

SomeError(procs) == \E i \in DOMAIN procs : procs[i].fn # NilErr

\* C4: when some termination procedure returns a non-nil error, the code
\* passed to the exit function is not 0.
C4_ErrorExitsNonZero ==
    \A l \in Listeners :
        SomeError(terminationProcedures) =>
            \A i \in DOMAIN task[l].exits : task[l].exits[i] # 0

\* C5: with no termination procedure, or when every procedure returns nil,
\* the pipeline resolves 0, every call of the exit function passes 0, and a
\* dispatch of a termination signal that returns has called it.
C5_NoErrorExitsZero ==
    \A l \in Listeners :
        /\ ~SomeError(terminationProcedures) =>
              /\ PipelineDone(l) => task[l].code = 0
              /\ \A i \in DOMAIN task[l].exits : task[l].exits[i] = 0
        /\ Returning(l) /\ IsTerminationSignal(task[l].target) =>
              task[l].exits # <<>>

\* C5 witness: a termination signal was dispatched with two procedures that
\* return nil, and the exit function was called with 0.
C5_Witness ==
    \E l \in Listeners :
        /\ Returning(l)
        /\ Len(terminationProcedures) = 2
        /\ ~SomeError(terminationProcedures)
        /\ task[l].exits = <<0>>

\* C6: a dispatch of a termination signal calls the exit function exactly
\* once.
C6_ExitOncePerDispatch ==
    \A l \in Listeners :
        Returning(l) /\ IsTerminationSignal(task[l].target) =>
            Len(task[l].exits) = 1

\* C7: invoking the cancellation handle again does not panic.
C7_CancelIdempotent == status # PanicCloseClosed

\* C8: after SetLogger(nil) no operation that logs raises.
C8_NilLoggerIsLegal == status # PanicNilLogger

\* C9: every signal delivered while the listener listens is dispatched
\* exactly once: whenever the goroutine waits on its empty channel, it has
\* dispatched as many signals as were delivered.
C9_EverySignalDispatched ==
    \A l \in Listeners :
        Running /\ task[l].pc = "recv" /\ chan[l] = <<>> =>
            dispatched[l] = delivered[l]

\* C10: once the cancellation handle was invoked, no signal raised after
\* that is sent on the listener's channel (which would panic, the channel
\* being closed) or dispatched by its goroutine; the goroutine leaves its
\* loop without raising.
C10_NoDispatchAfterStop ==
    /\ status # PanicSendClosed
    /\ \A l \in Listeners :
          /\ \A i \in DOMAIN chan[l] : ~chan[l][i].late
          /\ Dispatching(l) \/ task[l].pc = "hsRLock" => ~task[l].late
          /\ closed[l] => l \notin notify

\* C10 witness: after the handle was invoked and the goroutine returned, a
\* termination signal was raised: no channel is notified any more, and the
\* signal ends the process instead of being dispatched.
C10_Witness ==
    \E l \in Listeners :
        /\ closed[l]
        /\ task[l].pc = "done"
        /\ dispatched[l] >= 1
        /\ status = "killed by signal"

\* The cancellation handle of listener l was invoked: signal.Stop(c) has run.
Cancelled(l) == l <= nListeners /\ l \notin notify

\* The handler handleTerminationSignals of listener l does not return: its
\* runTerminationProcedures waits for a read lock behind a writer that waits
\* for the read lock handleSignal of the same goroutine holds.
HandlerBlocked(l) == task[l].pc = "rtRLock" /\ lockWriter = "waiting"

\* C11: once the cancellation handle of a listener was invoked, its goroutine
\* eventually leaves its receive loop and returns, unless the process ends
\* first or a handler that goroutine is running never returns.
C11_TaskTerminates ==
    \A l \in Listeners :
        Cancelled(l) ~> (task[l].pc = "done" \/ ~Running \/ HandlerBlocked(l))

\* C12: the code read from WrapErrorWithCode(e, c) is c for every non-nil
\* error e, whatever the default d; the code read from an error that carries
\* none is the default d; and WrapErrorWithCode(nil, c) is nil.
C12_CarrierRoundTrip ==
    /\ carrier.pc = "done" /\ carrier.e # NilErr =>
          carrier.got = carrier.code
    /\ carrier.pc = "direct" /\ carrier.e \in PlainErrors =>
          carrier.got = carrier.def
    /\ carrier.pc \in {"wrapped", "done"} /\ carrier.e = NilErr =>
          carrier.wrapped = NilErr

\* C12 witness: an error that already carries 1 was wrapped with 42, and the
\* code read from it with default -1 is 42.
C12_Witness ==
    /\ carrier.pc = "done"
    /\ carrier.e = WrapErrorWithCode(EOF, 1)
    /\ carrier.code = 42
    /\ carrier.def = -1
    /\ carrier.got = 42

\* The client thread holds the exclusive lock: the mutation of a
\* registration call (RegisterSignalHandler, the append of
\* RegisterTerminationProcedure, the write of SetLogger) is in progress.
Mutating == mainPc = "locked"

\* C13: a registration mutation is never in progress while a goroutine is
\* inside a dispatch or a pipeline run: the exclusive lock is held only when
\* no shared lock is.
C13_MutualExclusion ==
    /\ Mutating => \A l \in Listeners : ~Dispatching(l)
    /\ lockWriter = "held" => lockReaders = 0

\* C13 witness: two dispatches are in progress at the same time, one of
\* them inside the termination pipeline, while a registration waits.
C13_Witness ==
    \E l, k \in Listeners :
        /\ l # k
        /\ task[l].pc = "rtLoop"
        /\ task[k].pc = "hsSpec"
        /\ mainPc = "Lock"
        /\ call.op = "RegisterSignalHandler"

\* C14: a registration call made while a termination signal is being
\* dispatched does not deadlock with the dispatch: while the call waits in
\* Lock() for the dispatch to release its shared lock, the dispatching
\* goroutine can take its next step, so that the dispatch reaches the exit
\* function and the call returns.
C14_NoDeadlock ==
    \A l \in Listeners :
        /\ Running
        /\ mainPc = "Lock"
        /\ Dispatching(l)
        /\ IsTerminationSignal(task[l].target)
        => ENABLED TaskStep(l)

\* The dispatch of listener l is inside the termination pipeline or has
\* run it or called the exit function.
RanPipeline(l) ==
    \/ task[l].pc \in {"rtRLock", "rtLoop", "htExit"}
    \/ TermHandler \in Range(task[l].calls)
    \/ task[l].ran # <<>>
    \/ task[l].exits # <<>>

\* C15: a dispatch of signal s calls only wildcard handlers and handlers
\* registered for s; when s has no list of its own, a dispatch that returns
\* has called exactly the wildcard handlers; and when s is no termination
\* signal the dispatch neither runs the termination pipeline nor calls the
\* exit function.
C15_DispatchSelectivity ==
    \A l \in Listeners :
        Dispatching(l) =>
            /\ \A i \in DOMAIN task[l].calls :
                  \/ regSigs[task[l].calls[i]] = <<>>
                  \/ task[l].target \in Range(regSigs[task[l].calls[i]])
            /\ Returning(l) /\ task[l].target \notin DOMAIN handlers =>
                  task[l].calls = handlers[anySignal]
            /\ ~IsTerminationSignal(task[l].target) => ~RanPipeline(l)

\* C15 witness: SIGINT, which is no termination signal after
\* NewHandlers(SIGTERM) and has no list of its own, was dispatched with a
\* wildcard handler (2) and a handler for SIGTERM and SIGUSR1 (3)
\* registered: only the wildcard handler was called.
C15_Witness ==
    \E l \in Listeners :
        /\ Returning(l)
        /\ task[l].target = SIGINT
        /\ regSigs = <<<<SIGTERM>>, <<>>, <<SIGTERM, SIGUSR1>>>>
        /\ task[l].calls = <<2>>

\* Every list of the registry and the procedure sequence are, in the next
\* state, extensions of what they are now.
GrowOnly ==
    /\ \A k \in DOMAIN handlers :
          /\ k \in DOMAIN handlers'
          /\ IsPrefix(handlers[k], handlers'[k])
    /\ IsPrefix(terminationProcedures, terminationProcedures')

\* C16: no step of any operation (a registration, a dispatch, a pipeline
\* run, SetLogger, starting or cancelling a listener) removes or reorders an
\* entry: the handler list of every key and the procedure sequence of the
\* state before the step are prefixes of those after it.
C16_ListsOnlyGrow == [][GrowOnly]_vars

\* C16 witness: two handlers were registered behind the termination
\* handler in the list of SIGTERM, two procedures were registered, and a
\* signal was dispatched.
C16_Witness ==
    /\ Len(handlers[SIGTERM]) = 3
    /\ Len(terminationProcedures) = 2
    /\ \E l \in Listeners : dispatched[l] >= 1

\* C17: the registry always has the wildcard key, also while its list is
\* empty, and the wildcard key differs from the key of every signal.
C17_WildcardKeyPresent ==
    /\ anySignal \in DOMAIN handlers
    /\ \A sig \in Signals : sig # anySignal

\* C17 witness: after two registrations for signals and a dispatch, no
\* wildcard handler was ever registered and the wildcard list is empty.
C17_Witness ==
    /\ handlers[anySignal] = <<>>
    /\ regSigs = <<<<SIGTERM, SIGINT>>, <<SIGTERM, SIGUSR1>>,
                   <<SIGTERM, SIGUSR1>>>>
    /\ \E l \in Listeners : Returning(l)

\* The step in which a RegisterSignalHandler call changes the registry.
RegisterStep ==
    /\ mainPc = "locked"
    /\ call.op = "RegisterSignalHandler"
    /\ mainPc' = "idle"

\* How often signal sig is named in signals.
Named(sig, signals) == Len(SelectSeq(signals, LAMBDA x : x = sig))

\* The list of key k before the step; empty when the registry has no such key.
ListOf(k) == IF k \in DOMAIN handlers THEN handlers[k] ELSE <<>>

\* What a RegisterSignalHandler(handler, signals...) step changes and leaves.
RegisterFrame ==
    LET handler == Len(regSigs) + 1
        signals == call.sigs
    IN /\ terminationProcedures' = terminationProcedures
       /\ terminationSignals' = terminationSignals
       /\ log' = log
       /\ exit' = exit
       /\ IF signals = <<>>
          THEN /\ DOMAIN handlers' = DOMAIN handlers
               /\ handlers'[anySignal] = Append(handlers[anySignal], handler)
               /\ \A k \in DOMAIN handlers \ {anySignal} :
                     handlers'[k] = handlers[k]
          ELSE /\ DOMAIN handlers' = DOMAIN handlers \cup Range(signals)
               /\ handlers'[anySignal] = handlers[anySignal]
               /\ \A k \in DOMAIN handlers' \ {anySignal} :
                     handlers'[k] =
                        ListOf(k) \o [i \in 1..Named(k, signals) |-> handler]

\* C18: a RegisterSignalHandler call with no signal appends the handler once
\* to the wildcard list and changes no other list; a call with signals
\* appends it to the list of each named signal, creating the list when
\* there is none, and changes neither the wildcard list nor the list of a
\* signal it does not name; neither changes the termination procedures,
\* the logger or the exit function.
C18_RegisterFrame == [][RegisterStep => RegisterFrame]_vars

\* C18 witness: RegisterSignalHandler(h2, SIGTERM, SIGUSR1) created the list
\* of SIGUSR1 and RegisterSignalHandler(h3) appended to the wildcard list.
C18_Witness ==
    /\ mainPc = "idle"
    /\ regSigs = <<<<SIGTERM, SIGINT>>, <<SIGTERM, SIGUSR1>>, <<>>>>
    /\ handlers[anySignal] = <<3>>
    /\ handlers[SIGUSR1] = <<2>>
    /\ handlers[SIGTERM] = <<TermHandler, 2>>
    /\ handlers[SIGINT] = <<TermHandler>>

\* C19: a termination procedure that calls SetLogger while a dispatch runs
\* it returns from that call: when it waits in Lock() and no other
\* goroutine is inside a dispatch, its Lock() can return.
C19_ReentrantCallReturns ==
    \A l \in Listeners :
        /\ Running
        /\ task[l].pc = "fnLock"
        /\ \A k \in Listeners \ {l} : ~Dispatching(k)
        => ENABLED LockAcquired

\* SetLogger of the client thread holds the exclusive lock and is about to
\* write s.log.
LoggerWrite == mainPc = "locked" /\ call.op = "SetLogger"

\* The goroutine of listener l has a signal to receive: its next step is
\* s.log.Info("signal received: ", sig), made before handleSignal takes the
\* shared lock.
UnlockedLoggerRead(l) == task[l].pc = "recv" /\ chan[l] # <<>>

\* C20: the logger is never read while SetLogger writes it: no goroutine is
\* about to read s.log without the lock while SetLogger is about to write it
\* under the exclusive lock.
C20_LoggerReadsLocked ==
    \A l \in Listeners : ~(Running /\ LoggerWrite /\ UnlockedLoggerRead(l))

====
